---- MODULE Spec2Model ----
(***************************************************************************)
(* Model of src/app.py: the symbol classifier, the NPV function, the XIRR  *)
(* solver, the two cash-flow builders and the base-ticker detection loop.  *)
(*                                                                         *)
(* Conventions.  A symbol is a sequence of one-character strings.  Money   *)
(* is an integer number of cents (so the 0.01 threshold of the solver is   *)
(* the amount 1).  A date is an integer number of days; a rate is an exact *)
(* fraction n/d with d > 0.  None is a record with ok = FALSE.             *)
(***************************************************************************)
EXTENDS Integers, Sequences, FiniteSets, TLC

VARIABLES
    pc,             \* position of the running call
    symbol,         \* classifier: the argument of is_option_symbol
    verdict,        \* classifier: its return value (a set: {} = not yet called)
    df_trans,       \* the transaction table, a sequence of rows
    prices_dict,    \* the price mapping, a function on the quoted symbols
    now,            \* the real-world clock, an index into Instants
    call,           \* arguments of the running builder call
    built,          \* builder local `cashflows` before the final sort
    cashflows,      \* calculate_xirr: the parameter as given
    xcf,            \* calculate_xirr: the filtered list
    seed_idx,       \* calculate_xirr: position in starting_rates
    tried,          \* calculate_xirr: log of the root-finds attempted
    xirr_result,    \* calculate_xirr: return value
    ret,            \* builder return value (rate, series)
    memo,           \* what scipy's newton did for each (function, x0) so far
    prev,           \* the previous completed builder call, for re-invocation
    sym_i,          \* detection loop: position in the unique symbols
    base_tickers,   \* detection loop: the set being built
    resolved        \* detection loop: per symbol, what was added for it

vars == <<pc, symbol, verdict, df_trans, prices_dict, now, call, built,
          cashflows, xcf, seed_idx, tried, xirr_result, ret, memo, prev,
          sym_i, base_tickers, resolved>>

----------------------------------------------------------------------------
(* Characters and strings                                                  *)

DigitChars == <<"0", "1", "2", "3", "4", "5", "6", "7", "8", "9">>

IsDigit(c) == \E i \in 1..10 : DigitChars[i] = c

DigitVal(c) == (CHOOSE i \in 1..10 : DigitChars[i] = c) - 1

Whitespace == {" ", "\t"}

RECURSIVE LStrip(_)
LStrip(s) ==
    IF s # <<>> /\ Head(s) \in Whitespace THEN LStrip(Tail(s)) ELSE s

RECURSIVE RStrip(_)
RStrip(s) ==
    IF s # <<>> /\ s[Len(s)] \in Whitespace
    THEN RStrip(SubSeq(s, 1, Len(s) - 1)) ELSE s

\* the mutant of Strip: the symbol is taken as given
StripNothing(s) == s

\* str.strip()
Strip(s) == RStrip(LStrip(s))

\* str.startswith
StartsWith(s, p) == Len(p) <= Len(s) /\ SubSeq(s, 1, Len(p)) = p

\* Python slice s[a:b] with 0-based a, clipped at the end of the string
Slice(s, a, b) ==
    IF a >= Len(s) THEN <<>>
    ELSE SubSeq(s, a + 1, IF b <= Len(s) THEN b ELSE Len(s))

Rep(c, n) == [i \in 1..n |-> c]

----------------------------------------------------------------------------
(* is_option_symbol                                                        *)

OptionMinLen == 10

is_option_symbol(sym) ==
    LET s == Strip(sym) IN
    /\ Len(s) > OptionMinLen
    /\ \E i \in 1..Len(s) : s[i] \in {"C", "P"}
    /\ \E i \in 1..Len(s) : IsDigit(s[i])

----------------------------------------------------------------------------
(* datetime.strptime(date_part, "%y%m%d")                                  *)
(*                                                                         *)
(* The format compiles to the regular expression                           *)
(*   (\d\d)(1[0-2]|0[1-9]|[1-9])(3[01]|[12]\d|0[1-9]|[1-9]| [1-9])         *)
(* which is matched at the start of the string, the alternatives in the    *)
(* order written; a match that does not end at the end of the string, or a *)
(* day the month does not have, raises ValueError.  The value is a         *)
(* midnight, kept here as the calendar key yyyy*10000 + mm*100 + dd.       *)

NoDate == [ok |-> FALSE, key |-> 0]

\* lengths of the month alternatives that match at 1-based position p
MonthLens(s, p) ==
    (IF p + 1 <= Len(s) /\ s[p] = "1" /\ s[p + 1] \in {"0", "1", "2"}
        THEN <<2>> ELSE <<>>)
    \o (IF p + 1 <= Len(s) /\ s[p] = "0" /\ IsDigit(s[p + 1]) /\ s[p + 1] # "0"
        THEN <<2>> ELSE <<>>)
    \o (IF p <= Len(s) /\ IsDigit(s[p]) /\ s[p] # "0" THEN <<1>> ELSE <<>>)

\* length of the first day alternative that matches at position p, 0 if none
DayLen(s, p) ==
    IF p + 1 <= Len(s) /\ s[p] = "3" /\ s[p + 1] \in {"0", "1"} THEN 2
    ELSE IF p + 1 <= Len(s) /\ s[p] \in {"1", "2"} /\ IsDigit(s[p + 1]) THEN 2
    ELSE IF p + 1 <= Len(s) /\ s[p] = "0" /\ IsDigit(s[p + 1]) /\ s[p + 1] # "0" THEN 2
    ELSE IF p <= Len(s) /\ IsDigit(s[p]) /\ s[p] # "0" THEN 1
    ELSE IF p + 1 <= Len(s) /\ s[p] = " " /\ IsDigit(s[p + 1]) /\ s[p + 1] # "0" THEN 2
    ELSE 0

RECURSIVE NumVal(_)
NumVal(s) ==
    IF s = <<>> THEN 0
    ELSE IF IsDigit(s[Len(s)])
         THEN 10 * NumVal(SubSeq(s, 1, Len(s) - 1)) + DigitVal(s[Len(s)])
         ELSE NumVal(SubSeq(s, 1, Len(s) - 1))

DaysInMonth(y, m) ==
    IF m \in {4, 6, 9, 11} THEN 30
    ELSE IF m = 2
         THEN (IF y % 4 = 0 /\ (y % 100 # 0 \/ y % 400 = 0) THEN 29 ELSE 28)
         ELSE 31

strptime_ymd(s) ==
    IF ~(Len(s) >= 2 /\ IsDigit(s[1]) /\ IsDigit(s[2])) THEN NoDate
    ELSE
      LET ms == MonthLens(s, 3)
          \* the first month alternative after which some day alternative matches
          good == {i \in 1..Len(ms) : DayLen(s, 3 + ms[i]) > 0}
      IN IF good = {} THEN NoDate
         ELSE
           LET i  == CHOOSE j \in good : \A k \in good : j <= k
               ml == ms[i]
               dl == DayLen(s, 3 + ml)
               yy == NumVal(SubSeq(s, 1, 2))
               y  == IF yy <= 68 THEN 2000 + yy ELSE 1900 + yy
               m  == NumVal(SubSeq(s, 3, 2 + ml))
               d  == NumVal(SubSeq(s, 3 + ml, 2 + ml + dl))
           IN IF 2 + ml + dl # Len(s) THEN NoDate
              ELSE IF d > DaysInMonth(y, m) THEN NoDate
              ELSE [ok |-> TRUE, key |-> y * 10000 + m * 100 + d]

\* The instants the clock passes through: [key, tod], tod = 0 exactly at
\* midnight and 1 later that day.  They surround the expiry 2025-12-19 of
\* the option symbols of the model.
Instants ==
    << [key |-> 20251218, tod |-> 1],
       [key |-> 20251219, tod |-> 0],
       [key |-> 20251219, tod |-> 1],
       [key |-> 20251220, tod |-> 1] >>

\* expiry >= datetime.today(), a midnight against a date and time
NotExpired(expiry, today) ==
    \/ expiry.key > today.key
    \/ expiry.key = today.key /\ today.tod = 0

----------------------------------------------------------------------------
(* Numbers                                                                 *)

Abs(x) == IF x < 0 THEN -x ELSE x

RECURSIVE Pow(_, _)
Pow(b, e) == IF e = 0 THEN 1 ELSE b * Pow(b, e - 1)

MinOf(S) == CHOOSE x \in S : \A y \in S : x <= y
MaxOf(S) == CHOOSE x \in S : \A y \in S : x >= y

Frac(n, d) == [n |-> n, d |-> d]

None == [ok |-> FALSE, n |-> 0, d |-> 1]
Some(r) == [ok |-> TRUE, n |-> r.n, d |-> r.d]

\* a cash-flow entry (date, amount)
Entry(date, amount) == [date |-> date, amount |-> amount]

----------------------------------------------------------------------------
(* xnpv                                                                    *)

DaysPerYear == 365

\* (d - d0).days / 365.0; the dates of the model are whole years apart
Years(d, d0) == (d - d0) \div DaysPerYear

\* `for d, cf in cashflows if cf != 0`
NpvTerms(cfs) == {i \in 1..Len(cfs) : cfs[i].amount # 0}

\* The sum of cf / (1 + rate)^k over the terms, k = Years(d, d0), as the exact
\* fraction num/den: with rate = n/d, 1 + rate = (d + n)/d, and every term is
\* brought to the denominator d^(-kmin) * (d + n)^kmax, kmin <= 0 <= kmax.
xnpv(rate, cfs) ==
    IF cfs = <<>> THEN [num |-> 0, den |-> 1]
    ELSE
      LET d0   == cfs[1].date
          T    == NpvTerms(cfs)
          k(i) == Years(cfs[i].date, d0)
          kmin == MinOf({k(i) : i \in T} \cup {0})
          kmax == MaxOf({k(i) : i \in T} \cup {0})
          up   == rate.d + rate.n
          term(i) == cfs[i].amount * Pow(rate.d, k(i) - kmin) * Pow(up, kmax - k(i))
          RECURSIVE Sum(_)
          Sum(S) == IF S = {} THEN 0
                    ELSE LET i == CHOOSE j \in S : TRUE IN term(i) + Sum(S \ {i})
      IN [num |-> Sum(T), den |-> Pow(rate.d, -kmin) * Pow(up, kmax)]

----------------------------------------------------------------------------
(* scipy.optimize.newton, as calculate_xirr calls it                       *)
(*                                                                         *)
(* The library is not part of the repository.  What the model keeps of it: *)
(* a call either raises or returns a rate at which the function is zero;   *)
(* on a function that is constant (every entry on the same date) the two   *)
(* starting points of the secant method have equal values and the call     *)
(* raises; and it is deterministic: the same function and the same x0 give *)
(* the same outcome again (memo).  RateGrid bounds the rates it returns.   *)

RateGrid ==
    { Frac(-199, 200), Frac(-99, 100), Frac(-9, 10), Frac(0, 1), Frac(1, 10),
      Frac(11, 10), Frac(100, 1), Frac(101, 1) }

Raised == [conv |-> FALSE, n |-> 0, d |-> 1]
Converged(r) == [conv |-> TRUE, n |-> r.n, d |-> r.d]

ConstantNpv(cfs) == \A i \in 1..Len(cfs) : cfs[i].date = cfs[1].date

NewtonOutcomes(cfs, x0) ==
    IF ConstantNpv(cfs) THEN {Raised}
    ELSE {Raised}
         \cup {Converged(r) : r \in {q \in RateGrid : xnpv(q, cfs).num = 0}}

----------------------------------------------------------------------------
(* calculate_xirr                                                          *)

starting_rates ==
    << Frac(1, 10), Frac(1, 100), Frac(1, 2), Frac(-1, 2),
       Frac(1, 5), Frac(-1, 5), Frac(1, 1), Frac(-9, 10) >>

\* the mutant of Kept: only exact zeros are filtered out
KeptNonZero(e) == Abs(e.amount) > 0

\* abs(cf) > 0.01
Kept(e) == Abs(e.amount) > 1

Filtered(cfs) == SelectSeq(cfs, Kept)

\* signs = [1 if cf > 0 else -1 ...]; len(set(signs)) == 1
SameSign(cfs) ==
    Cardinality({IF cfs[i].amount > 0 THEN 1 ELSE -1 : i \in 1..Len(cfs)}) = 1

\* the mutant of Accepted: the lower bound is forgotten
AcceptedBelow100(r) == r.n <= 100 * r.d

\* -0.99 <= result <= 100
Accepted(r) == -99 * r.d <= 100 * r.n /\ r.n <= 100 * r.d

\* lines 39-51: the verdict of the pre-checks
PrecheckFails(cfs) ==
    \/ Len(cfs) < 2
    \/ Len(Filtered(cfs)) < 2
    \/ SameSign(Filtered(cfs))

\* lines 37-51: entry, filter and the three early returns
XirrPrecheck ==
    /\ pc = "xirr_enter"
    /\ xcf' = Filtered(cashflows)
    /\ tried' = <<>>
    /\ IF PrecheckFails(cashflows)
       THEN /\ xirr_result' = None
            /\ seed_idx' = 0
            /\ pc' = "xirr_ret"
       ELSE /\ xirr_result' = xirr_result
            /\ seed_idx' = 1
            /\ pc' = "xirr_seed"
    /\ UNCHANGED <<symbol, verdict, df_trans, prices_dict, now, call, built,
                   cashflows, ret, memo, prev, sym_i, base_tickers, resolved>>

\* lines 56-65: one pass of the loop body, and the return after the last seed
TrySeed ==
    /\ pc = "xirr_seed"
    /\ \E out \in NewtonOutcomes(xcf, starting_rates[seed_idx]) :
         /\ \A m \in memo :
              (m.f = xcf /\ m.x0 = starting_rates[seed_idx]) => m.out = out
         /\ memo' = memo \cup {[f |-> xcf, x0 |-> starting_rates[seed_idx], out |-> out]}
         /\ tried' = Append(tried, [x0 |-> starting_rates[seed_idx], out |-> out])
         /\ IF out.conv /\ Accepted(out)
            THEN /\ xirr_result' = Some(out)
                 /\ pc' = "xirr_ret"
                 /\ seed_idx' = seed_idx
            ELSE IF seed_idx < Len(starting_rates)
            THEN /\ xirr_result' = xirr_result
                 /\ pc' = "xirr_seed"
                 /\ seed_idx' = seed_idx + 1
            ELSE /\ xirr_result' = None
                 /\ pc' = "xirr_ret"
                 /\ seed_idx' = seed_idx
    /\ UNCHANGED <<symbol, verdict, df_trans, prices_dict, now, call, built,
                   cashflows, xcf, ret, prev, sym_i, base_tickers, resolved>>

----------------------------------------------------------------------------
(* The solver on its own: calculate_xirr called on any series               *)

MaxLen == 3

RECURSIVE SeqsUpTo(_, _)
SeqsUpTo(S, n) ==
    IF n = 0 THEN {<<>>}
    ELSE LET shorter == SeqsUpTo(S, n - 1)
         IN shorter \cup {Append(q, x) : q \in shorter, x \in S}

\* amounts in cents: 1 is the one-cent amount the filter drops, 2 the
\* smallest it keeps.  Roots: (-100, 110) 0.1; (10, -1031, 1122) 0.1 and 101;
\* (-100, 10100) 100; (-200, 2) -0.99; (-400, 2) -0.995.
XirrEntries ==
    { Entry(0, -100), Entry(365, 110), Entry(0, 10), Entry(365, -1031),
      Entry(730, 1122), Entry(365, 10100), Entry(0, -200), Entry(0, -400),
      Entry(365, 2), Entry(365, 1), Entry(365, 0) }

EmptyMap == [k \in {} |-> 0]

NoCall ==
    [fn |-> "none", ticker |-> <<>>, calculation_date |-> 0, today |-> 1,
     df |-> <<>>, prices |-> EmptyMap]
NoRet == [set |-> FALSE, rate |-> None, series |-> <<>>]
NoPrev == [set |-> FALSE, call |-> NoCall, ret |-> NoRet]

InitXirr ==
    /\ pc = "xirr_enter"
    /\ cashflows \in SeqsUpTo(XirrEntries, MaxLen)
    /\ symbol = <<>> /\ verdict = {} /\ df_trans = <<>> /\ prices_dict = EmptyMap
    /\ now = 1 /\ call = NoCall /\ built = <<>> /\ xcf = <<>> /\ seed_idx = 0
    /\ tried = <<>> /\ xirr_result = None /\ ret = NoRet /\ memo = {}
    /\ prev = NoPrev /\ sym_i = 0 /\ base_tickers = {} /\ resolved = <<>>

NextXirr == XirrPrecheck \/ TrySeed

SpecXirr == InitXirr /\ [][NextXirr]_vars

----------------------------------------------------------------------------
(* Claims about the solver, checked under SpecXirr                         *)

SeedsClaimed ==
    << Frac(1, 10), Frac(1, 100), Frac(1, 2), Frac(-1, 2),
       Frac(1, 5), Frac(-1, 5), Frac(1, 1), Frac(-9, 10) >>

InRangeClaimed(o) == o.conv /\ -99 * o.d <= 100 * o.n /\ o.n <= 100 * o.d

\* C1: on a series that passes the pre-checks the seeds are tried in the
\* order 0.1, 0.01, 0.5, -0.5, 0.2, -0.2, 1.0, -0.9; every seed tried before
\* the last one raised or converged out of [-0.99, 100]; the call returns
\* the result of the first seed that converged inside [-0.99, 100] and tries
\* none after it, or None after all eight were rejected; a returned rate is
\* in [-0.99, 100].
C1_FirstAcceptedSeedWins ==
    /\ Len(tried) <= Len(SeedsClaimed)
    /\ \A i \in 1..Len(tried) : tried[i].x0 = SeedsClaimed[i]
    /\ \A i \in 1..(Len(tried) - 1) : ~InRangeClaimed(tried[i].out)
    /\ (pc = "xirr_ret" /\ seed_idx >= 1) =>
          /\ tried # <<>>
          /\ IF InRangeClaimed(tried[Len(tried)].out)
             THEN xirr_result = Some(tried[Len(tried)].out)
             ELSE Len(tried) = Len(SeedsClaimed) /\ xirr_result = None
    /\ xirr_result.ok =>
          -99 * xirr_result.d <= 100 * xirr_result.n
          /\ xirr_result.n <= 100 * xirr_result.d

\* a call that skipped a seed that raised and a seed that converged out of
\* range, and returned the result of a later seed
C1_Witness ==
    /\ pc = "xirr_ret"
    /\ xirr_result.ok
    /\ \E i \in 1..Len(tried) : ~tried[i].out.conv
    /\ \E i \in 1..Len(tried) : tried[i].out.conv /\ ~InRangeClaimed(tried[i].out)

Big(cfs) == {i \in 1..Len(cfs) : cfs[i].amount > 1 \/ cfs[i].amount < -1}

UndefinedByPrecheck(cfs) ==
    \/ Len(cfs) < 2
    \/ Cardinality(Big(cfs)) < 2
    \/ \A i \in Big(cfs) : cfs[i].amount > 0
    \/ \A i \in Big(cfs) : cfs[i].amount < 0

\* C2: a series with fewer than 2 entries, or fewer than 2 entries of more
\* than one cent, or whose entries of more than one cent are all positive or
\* all negative, gives None without any root-find being attempted.
C2_PrecheckUndefined ==
    (pc # "xirr_enter" /\ UndefinedByPrecheck(cashflows)) =>
        /\ pc = "xirr_ret"
        /\ xirr_result = None
        /\ tried = <<>>

\* three entries, two negative ones above the threshold and a positive one
\* of one cent: undefined only because the filter dropped the cent
C2_Witness ==
    /\ pc = "xirr_ret"
    /\ Len(cashflows) = 3
    /\ Cardinality(Big(cashflows)) = 2
    /\ \E i \in 1..3 : cashflows[i].amount = 1
    /\ \A i \in Big(cashflows) : cashflows[i].amount < 0
    /\ xirr_result = None

----------------------------------------------------------------------------
(* The transaction table and the price mapping                             *)

Row(sym, date, qty, cf) ==
    [Symbol |-> sym, Date |-> date, Qty |-> qty, CashFlow |-> cf]

\* prices_dict.get(k): None when k has no quote
Get(prices, k) ==
    IF k \in DOMAIN prices THEN [present |-> TRUE, v |-> prices[k]]
    ELSE [present |-> FALSE, v |-> 0]

\* `if current_price`: None and 0 are both false
Truthy(x) == x.present /\ x.v # 0

RECURSIVE InsertRow(_, _)
InsertRow(r, sorted) ==
    IF sorted = <<>> THEN <<r>>
    ELSE IF r.Date < sorted[Len(sorted)].Date
         THEN Append(InsertRow(r, SubSeq(sorted, 1, Len(sorted) - 1)),
                     sorted[Len(sorted)])
         ELSE Append(sorted, r)

\* DataFrame.sort_values('Date'): rows of equal date keep their order (the
\* sort of the library is an insertion sort on tables this small)
RECURSIVE sort_values(_)
sort_values(rows) ==
    IF rows = <<>> THEN <<>>
    ELSE InsertRow(rows[Len(rows)], sort_values(SubSeq(rows, 1, Len(rows) - 1)))

RECURSIVE InsertEntry(_, _)
InsertEntry(e, sorted) ==
    IF sorted = <<>> THEN <<e>>
    ELSE IF e.date < sorted[Len(sorted)].date
         THEN Append(InsertEntry(e, SubSeq(sorted, 1, Len(sorted) - 1)),
                     sorted[Len(sorted)])
         ELSE Append(sorted, e)

\* the mutant of sorted_by_date: the list is returned in the order built
NotSorted(cfs) == cfs

\* sorted(cashflows, key=lambda x: x[0]), a stable sort
RECURSIVE sorted_by_date(_)
sorted_by_date(cfs) ==
    IF cfs = <<>> THEN <<>>
    ELSE InsertEntry(cfs[Len(cfs)], sorted_by_date(SubSeq(cfs, 1, Len(cfs) - 1)))

RowEntries(rows) == [i \in 1..Len(rows) |-> Entry(rows[i].Date, rows[i].CashFlow)]

RECURSIVE SumQty(_)
SumQty(rows) == IF rows = <<>> THEN 0 ELSE rows[1].Qty + SumQty(Tail(rows))

----------------------------------------------------------------------------
(* calculate_stock_only_xirr                                               *)

\* lines 71-80: the rows selected, sorted by date
StockTrans(ticker, df) ==
    LET Sel(r) == r.Symbol = ticker /\ ~is_option_symbol(r.Symbol)
    IN sort_values(SelectSeq(df, Sel))

\* lines 94-97: the terminal value of the holding, a list of 0 or 1 entries
StockTerminal(ticker, qty, prices, calculation_date) ==
    LET current_price == Get(prices, ticker)
    IN IF Truthy(current_price) /\ qty # 0
       THEN << Entry(calculation_date, qty * current_price.v) >>
       ELSE <<>>

\* lines 82-97: the list `cashflows` when the length test is reached
StockOnlyBuilt(ticker, df, prices, calculation_date) ==
    LET stock_trans == StockTrans(ticker, df)
    IN RowEntries(stock_trans)
       \o StockTerminal(ticker, SumQty(stock_trans), prices, calculation_date)

----------------------------------------------------------------------------
(* calculate_combined_xirr                                                 *)

\* lines 110-112
TickerTrans(ticker, df) ==
    LET Sel(r) == StartsWith(r.Symbol, ticker)
    IN sort_values(SelectSeq(df, Sel))

\* the keys of option_positions in insertion order
RECURSIVE OptionSymbols(_)
OptionSymbols(rows) ==
    IF rows = <<>> THEN <<>>
    ELSE LET before == OptionSymbols(SubSeq(rows, 1, Len(rows) - 1))
             s == rows[Len(rows)].Symbol
         IN IF is_option_symbol(s) /\ ~(\E i \in 1..Len(before) : before[i] = s)
            THEN Append(before, s) ELSE before

\* option_positions[symbol]['net_qty']
NetQty(rows, s) ==
    LET Sel(r) == r.Symbol = s IN SumQty(SelectSeq(rows, Sel))

\* the mutant of StockQty: the branches of the test at line 129 are swapped,
\* so the quantity of the option rows is summed
StockQtyOfOptions(rows) ==
    LET Sel(r) == is_option_symbol(r.Symbol) IN SumQty(SelectSeq(rows, Sel))

\* lines 129-136: the quantity of the rows that are not options
StockQty(rows) ==
    LET Sel(r) == ~is_option_symbol(r.Symbol) IN SumQty(SelectSeq(rows, Sel))

\* lines 145-147
Expiry(ticker, s) == strptime_ymd(Slice(s, Len(ticker), Len(ticker) + 6))

\* lines 141-156, one pass of the loop: 0 or 1 entries
OptionTerminal(ticker, rows, s, prices, calculation_date, today) ==
    LET net_qty == NetQty(rows, s)
        expiry == Expiry(ticker, s)
        current_option_price == Get(prices, s)
    IN IF net_qty # 0 /\ expiry.ok /\ NotExpired(expiry, today)
          /\ Truthy(current_option_price)
       THEN << Entry(calculation_date, current_option_price.v * net_qty * 100) >>
       ELSE <<>>

\* the mutant of OptionTerminals: the try surrounds the loop, so the first
\* symbol whose expiry does not parse ends it
RECURSIVE OptionTerminalsAbort(_, _, _, _, _, _)
OptionTerminalsAbort(ticker, rows, syms, prices, calculation_date, today) ==
    IF syms = <<>> THEN <<>>
    ELSE IF NetQty(rows, syms[1]) # 0 /\ ~Expiry(ticker, syms[1]).ok THEN <<>>
    ELSE OptionTerminal(ticker, rows, syms[1], prices, calculation_date, today)
         \o OptionTerminalsAbort(ticker, rows, Tail(syms), prices,
                                 calculation_date, today)

\* lines 139-156: the loop over option_positions
RECURSIVE OptionTerminals(_, _, _, _, _, _)
OptionTerminals(ticker, rows, syms, prices, calculation_date, today) ==
    IF syms = <<>> THEN <<>>
    ELSE OptionTerminal(ticker, rows, syms[1], prices, calculation_date, today)
         \o OptionTerminals(ticker, rows, Tail(syms), prices,
                            calculation_date, today)

\* lines 117-162: the list `cashflows` when the length test is reached
CombinedBuilt(ticker, df, prices, calculation_date, today) ==
    LET ticker_trans == TickerTrans(ticker, df)
    IN RowEntries(ticker_trans)
       \o OptionTerminals(ticker, ticker_trans, OptionSymbols(ticker_trans),
                          prices, calculation_date, today)
       \o StockTerminal(ticker, StockQty(ticker_trans), prices, calculation_date)

----------------------------------------------------------------------------
(* The builders as calls: entry, the solver's steps, return                *)

\* lines 99-104 and 164-169 up to the call of calculate_xirr: the length
\* test; the solver receives sorted(cashflows)
Handoff(b) ==
    /\ built' = b
    /\ xcf' = <<>>
    /\ seed_idx' = 0
    /\ tried' = <<>>
    /\ xirr_result' = None
    /\ IF Len(b) >= 2
       THEN /\ cashflows' = sorted_by_date(b)
            /\ ret' = NoRet
            /\ pc' = "xirr_enter"
       ELSE /\ cashflows' = <<>>
            /\ ret' = [set |-> TRUE, rate |-> None, series |-> <<>>]
            /\ pc' = "done"

\* the mutant of TableAfterCall: the caller's table is sorted in place
TableSortedInPlace(df) == sort_values(df)

\* lines 71-80 and 110-112: the selection is copied and sort_values returns a
\* new frame, so the caller's table is as it was
TableAfterCall(df) == df

\* lines 67-99, with the early return of lines 76-77
StartStockOnly(ticker, calculation_date) ==
    /\ call' = [fn |-> "stock", ticker |-> ticker,
                calculation_date |-> calculation_date, today |-> now,
                df |-> df_trans, prices |-> prices_dict]
    /\ df_trans' = TableAfterCall(df_trans)
    /\ IF StockTrans(ticker, df_trans) = <<>>
       THEN Handoff(<<>>)
       ELSE Handoff(StockOnlyBuilt(ticker, df_trans, prices_dict, calculation_date))

\* lines 106-164, with the early return of lines 114-115
StartCombined(ticker, calculation_date) ==
    /\ call' = [fn |-> "combined", ticker |-> ticker,
                calculation_date |-> calculation_date, today |-> now,
                df |-> df_trans, prices |-> prices_dict]
    /\ df_trans' = TableAfterCall(df_trans)
    /\ IF TickerTrans(ticker, df_trans) = <<>>
       THEN Handoff(<<>>)
       ELSE Handoff(CombinedBuilt(ticker, df_trans, prices_dict,
                                  calculation_date, Instants[now]))

InvokeStockOnly(ticker, calculation_date) ==
    /\ pc = "idle"
    /\ StartStockOnly(ticker, calculation_date)
    /\ UNCHANGED <<symbol, verdict, prices_dict, now, memo, prev,
                   sym_i, base_tickers, resolved>>

InvokeCombined(ticker, calculation_date) ==
    /\ pc = "idle"
    /\ StartCombined(ticker, calculation_date)
    /\ UNCHANGED <<symbol, verdict, prices_dict, now, memo, prev,
                   sym_i, base_tickers, resolved>>

\* lines 101-102 and 166-167: the pair returned after calculate_xirr
BuilderReturn ==
    /\ pc = "xirr_ret"
    /\ call.fn \in {"stock", "combined"}
    /\ ret' = [set |-> TRUE, rate |-> xirr_result, series |-> sorted_by_date(built)]
    /\ pc' = "done"
    /\ UNCHANGED <<symbol, verdict, df_trans, prices_dict, now, call, built,
                   cashflows, xcf, seed_idx, tried, xirr_result, memo, prev,
                   sym_i, base_tickers, resolved>>

\* real-world time passes before the call
Tick ==
    /\ pc = "idle"
    /\ now < Len(Instants)
    /\ now' = now + 1
    /\ UNCHANGED <<pc, symbol, verdict, df_trans, prices_dict, call, built,
                   cashflows, xcf, seed_idx, tried, xirr_result, ret, memo,
                   prev, sym_i, base_tickers, resolved>>

----------------------------------------------------------------------------
(* Inputs of the builders                                                  *)

BKE == <<"B", "K", "E">>
BK == <<"B", "K">>

\* BKE251219C00040000
OPT1 == <<"B", "K", "E", "2", "5", "1", "2", "1", "9", "C",
          "0", "0", "0", "4", "0", "0", "0", "0">>

\* BKEX251219C00040000, an option on BKEX, of which BKE is a string prefix
OPT2 == <<"B", "K", "E", "X", "2", "5", "1", "2", "1", "9", "C",
          "0", "0", "0", "4", "0", "0", "0", "0">>

RowPool ==
    { Row(BKE, 0, 1, -100),      \* buys a share for 1.00
      Row(BKE, 365, -1, 110),    \* sells a share for 1.10
      Row(BKE, 365, 0, 1),       \* receives one cent
      Row(OPT1, 365, -1, 100),   \* writes a call for 1.00
      Row(OPT2, 365, 1, -100) }  \* buys a call for 1.00

MaxRows == 2

PriceChoices(k, V) == {EmptyMap} \cup {k :> v : v \in V}

PriceMaps ==
    { a @@ b @@ (OPT2 :> 1) :
        a \in PriceChoices(BKE, {0, 110}), b \in PriceChoices(OPT1, {0, 1}) }

Tickers == {BKE, BK}

CalcDates == {0, 365}

Init ==
    /\ pc = "idle"
    /\ df_trans \in SeqsUpTo(RowPool, MaxRows)
    /\ prices_dict \in PriceMaps
    /\ symbol = <<>> /\ verdict = {}
    /\ now = 1 /\ call = NoCall /\ built = <<>> /\ cashflows = <<>>
    /\ xcf = <<>> /\ seed_idx = 0
    /\ tried = <<>> /\ xirr_result = None /\ ret = NoRet /\ memo = {}
    /\ prev = NoPrev /\ sym_i = 0 /\ base_tickers = {} /\ resolved = <<>>

Next ==
    \/ Tick
    \/ \E t \in Tickers, d \in CalcDates : InvokeStockOnly(t, d)
    \/ \E t \in Tickers, d \in CalcDates : InvokeCombined(t, d)
    \/ XirrPrecheck
    \/ TrySeed
    \/ BuilderReturn

Spec == Init /\ [][Next]_vars

----------------------------------------------------------------------------
(* Claims about the builders, checked under Spec                           *)

Count(q, e) == Cardinality({i \in 1..Len(q) : q[i] = e})

SameEntries(a, b) ==
    /\ Len(a) = Len(b)
    /\ \A i \in 1..Len(a) : Count(a, a[i]) = Count(b, a[i])

\* the rows the stock-only builder is to select, in table order
StockRowsClaimed ==
    LET Sel(r) == r.Symbol = call.ticker /\ ~is_option_symbol(r.Symbol)
    IN SelectSeq(df_trans, Sel)

\* the rows the combined builder is to select, in table order
CombinedRowsClaimed ==
    LET Sel(r) == StartsWith(r.Symbol, call.ticker) IN SelectSeq(df_trans, Sel)

\* the entries of `built` after the first n
After(n) == SubSeq(built, n + 1, Len(built))

\* C3: in the stock-only builder, a quote for the ticker (any price, 0
\* included) and a nonzero total quantity of the selected rows give exactly
\* one terminal entry (valuation_date, total_qty * price) besides one entry
\* per selected row; no quote or a zero total gives no terminal entry.
C3_TerminalWheneverQuoted ==
    call.fn = "stock" =>
        LET rows == StockRowsClaimed
            total_qty == SumQty(rows)
        IN /\ Len(built) >= Len(rows)
           /\ SameEntries(SubSeq(built, 1, Len(rows)), RowEntries(rows))
           /\ IF call.ticker \in DOMAIN prices_dict /\ total_qty # 0
              THEN After(Len(rows)) =
                     << Entry(call.calculation_date,
                              total_qty * prices_dict[call.ticker]) >>
              ELSE After(Len(rows)) = <<>>

OptionSymbolsClaimed(rows) ==
    {rows[i].Symbol : i \in {j \in 1..Len(rows) : is_option_symbol(rows[j].Symbol)}}

NetQtyClaimed(rows, s) ==
    LET Sel(r) == r.Symbol = s IN SumQty(SelectSeq(rows, Sel))

ExpiryClaimed(s) ==
    strptime_ymd(Slice(s, Len(call.ticker), Len(call.ticker) + 6))

\* C4: in the combined builder, an option symbol with nonzero net quantity
\* whose expiry parses has the terminal entry (valuation_date, price *
\* net_qty * 100) if and only if its expiry date is on or after the current
\* date (today included) and the symbol has a quote.
C4_OptionTerminalIffNotExpired ==
    call.fn = "combined" =>
        LET rows == CombinedRowsClaimed
        IN \A s \in OptionSymbolsClaimed(rows) :
             (NetQtyClaimed(rows, s) # 0 /\ ExpiryClaimed(s).ok) =>
                ( (\E i \in 1..Len(After(Len(rows))) :
                      /\ s \in DOMAIN prices_dict
                      /\ After(Len(rows))[i] =
                           Entry(call.calculation_date,
                                 prices_dict[s] * NetQtyClaimed(rows, s) * 100))
                  <=>
                  ( /\ ExpiryClaimed(s).key >= Instants[call.today].key
                    /\ s \in DOMAIN prices_dict ) )

\* what the code asks of an option symbol before it adds its terminal entry
Qualifies(rows, s) ==
    /\ NetQtyClaimed(rows, s) # 0
    /\ ExpiryClaimed(s).ok
    /\ \/ ExpiryClaimed(s).key > Instants[call.today].key
       \/ /\ ExpiryClaimed(s).key = Instants[call.today].key
          /\ Instants[call.today].tod = 0
    /\ s \in DOMAIN prices_dict
    /\ prices_dict[s] # 0

StockTerminalDue(rows) ==
    LET Sel(r) == ~is_option_symbol(r.Symbol)
    IN /\ call.ticker \in DOMAIN prices_dict
       /\ prices_dict[call.ticker] # 0
       /\ SumQty(SelectSeq(rows, Sel)) # 0

UnparsedSymbols(rows) ==
    {s \in OptionSymbolsClaimed(rows) :
        NetQtyClaimed(rows, s) # 0 /\ ~ExpiryClaimed(s).ok}

\* C5: when the expiry of an option symbol with nonzero net quantity does
\* not parse, only that symbol's terminal entry is missing: every selected
\* row has its entry, every other option symbol has its terminal entry
\* under its own conditions, the stock holding has its own under its own,
\* and the call returns, with the rate the solver computed from that series
\* when it has two entries or more.
C5_ParseFailureSkipsOneSymbol ==
    (call.fn = "combined" /\ UnparsedSymbols(CombinedRowsClaimed) # {}) =>
        LET rows == CombinedRowsClaimed
            tail == After(Len(rows))
            due  == {s \in OptionSymbolsClaimed(rows) : Qualifies(rows, s)}
            term(s) == Entry(call.calculation_date,
                             prices_dict[s] * NetQtyClaimed(rows, s) * 100)
            stock == Entry(call.calculation_date,
                           StockQty(rows) * prices_dict[call.ticker])
        IN /\ Len(built) >= Len(rows)
           /\ SameEntries(SubSeq(built, 1, Len(rows)), RowEntries(rows))
           /\ \A s \in due : Count(tail, term(s)) = 1
           /\ StockTerminalDue(rows) => Count(tail, stock) = 1
           /\ Len(tail) = Cardinality(due) + (IF StockTerminalDue(rows) THEN 1 ELSE 0)
           /\ pc = "done" =>
                 /\ ret.set
                 /\ Len(built) >= 2 =>
                       /\ SameEntries(ret.series, built)
                       /\ cashflows = ret.series
                       /\ ret.rate = xirr_result

\* a call with a symbol whose expiry did not parse, in which the stock
\* holding got its terminal entry and a rate came back
C5_Witness ==
    /\ call.fn = "combined"
    /\ pc = "done"
    /\ LET rows == CombinedRowsClaimed
       IN /\ UnparsedSymbols(rows) # {}
          /\ StockTerminalDue(rows)
          /\ Len(built) = Len(rows) + 1
    /\ ret.rate.ok

IsSortedByDate(q) == \A i \in 1..(Len(q) - 1) : q[i].date <= q[i + 1].date

\* C6: a builder returns a series sorted by date and never one of exactly
\* one entry: either it has two entries or more, it is the series the
\* solver was given and the rate is the solver's result, or the pair is
\* (None, empty).
C6_SortedPairOrEmpty ==
    ret.set =>
        /\ IsSortedByDate(ret.series)
        /\ Len(ret.series) # 1
        /\ \/ /\ Len(ret.series) >= 2
              /\ SameEntries(ret.series, built)
              /\ cashflows = ret.series
              /\ ret.rate = xirr_result
           \/ /\ ret.rate = None
              /\ ret.series = <<>>

\* a returned series of three entries or more whose terminal entry, dated
\* before a transaction, is no longer where it was appended
C6_Witness ==
    /\ ret.set
    /\ Len(ret.series) >= 3
    /\ built[Len(built)].date = call.calculation_date
    /\ \E i \in 1..(Len(built) - 1) : built[i].date > call.calculation_date
    /\ ret.series # built
    /\ ret.rate.ok

\* C10: the NPV of the returned series at the returned rate, every nonzero
\* entry counted, is within 1e-4 (a hundredth of a cent) of zero.
C10_RoundTrip ==
    (ret.set /\ ret.rate.ok) =>
        LET v == xnpv(ret.rate, ret.series) IN Abs(v.num) <= v.den \div 100

----------------------------------------------------------------------------
(* A builder called twice with the same arguments                          *)

\* real-world time passes between the two calls
TimePasses ==
    /\ pc = "done"
    /\ ~prev.set
    /\ now < Len(Instants)
    /\ now' = now + 1
    /\ UNCHANGED <<pc, symbol, verdict, df_trans, prices_dict, call, built,
                   cashflows, xcf, seed_idx, tried, xirr_result, ret, memo,
                   prev, sym_i, base_tickers, resolved>>

\* the caller keeps the first result and calls again with what it passed before
Reinvoke ==
    /\ pc = "done"
    /\ ~prev.set
    /\ prev' = [set |-> TRUE, call |-> call, ret |-> ret]
    /\ IF call.fn = "stock"
       THEN StartStockOnly(call.ticker, call.calculation_date)
       ELSE StartCombined(call.ticker, call.calculation_date)
    /\ UNCHANGED <<symbol, verdict, prices_dict, now, memo, sym_i,
                   base_tickers, resolved>>

MaxRowsReentrant == 2

InitReentrant ==
    /\ pc = "idle"
    /\ df_trans \in SeqsUpTo(RowPool, MaxRowsReentrant)
    /\ prices_dict \in PriceMaps
    /\ symbol = <<>> /\ verdict = {}
    /\ now = 1 /\ call = NoCall /\ built = <<>> /\ cashflows = <<>>
    /\ xcf = <<>> /\ seed_idx = 0
    /\ tried = <<>> /\ xirr_result = None /\ ret = NoRet /\ memo = {}
    /\ prev = NoPrev /\ sym_i = 0 /\ base_tickers = {} /\ resolved = <<>>

NextReentrant ==
    \/ \E t \in Tickers, d \in CalcDates : InvokeStockOnly(t, d)
    \/ \E t \in Tickers, d \in CalcDates : InvokeCombined(t, d)
    \/ XirrPrecheck
    \/ TrySeed
    \/ BuilderReturn
    \/ TimePasses
    \/ Reinvoke

SpecReentrant == InitReentrant /\ [][NextReentrant]_vars

SameArguments ==
    /\ call.fn = prev.call.fn
    /\ call.ticker = prev.call.ticker
    /\ call.calculation_date = prev.call.calculation_date
    /\ call.df = prev.call.df
    /\ call.prices = prev.call.prices

\* C9 as claimed: a second call of a builder with the arguments of the
\* first returns the pair the first returned, whatever the clock did in
\* between, and no call changes the table or the price mapping.
C9_EqualArgumentsEqualResults ==
    /\ call.fn # "none" => (df_trans = call.df /\ prices_dict = call.prices)
    /\ (prev.set /\ ret.set /\ SameArguments) => ret = prev.ret

\* C9 as amended: no call changes the table or the price mapping; a second
\* call of the stock-only builder with the arguments of the first returns
\* the pair the first returned whatever the clock did in between; a second
\* call of the combined builder does so when the clock reads the same for
\* both.
C9_EqualResultsAtEqualClock ==
    /\ call.fn # "none" => (df_trans = call.df /\ prices_dict = call.prices)
    /\ (prev.set /\ ret.set /\ SameArguments
        /\ (call.fn = "stock" \/ call.today = prev.call.today))
          => ret = prev.ret

\* a stock-only builder called a second time after the clock moved, on a
\* table that is not in date order, returning a rate both times
C9_Witness ==
    /\ prev.set
    /\ ret.set
    /\ SameArguments
    /\ call.fn = "stock"
    /\ call.today > prev.call.today
    /\ ret.rate.ok
    /\ ~(\A i \in 1..(Len(df_trans) - 1) : df_trans[i].Date <= df_trans[i + 1].Date)

----------------------------------------------------------------------------
(* The classifier on its own                                               *)

MaxPad == 1
MaxBody == 11

\* padding, a run of letters, then optionally an inner blank, one of C, P
\* and c, and a digit, then padding
ClassifierSymbols ==
    { Rep(" ", l) \o Rep("A", n) \o inner \o cp \o dg \o Rep(" ", t) :
        l \in 0..MaxPad, t \in 0..MaxPad, n \in 0..MaxBody,
        inner \in {<<>>, <<" ">>},
        cp \in {<<>>, <<"C">>, <<"P">>, <<"c">>},
        dg \in {<<>>, <<"7">>} }

InitClassifier ==
    /\ pc = "classify"
    /\ symbol \in ClassifierSymbols
    /\ verdict = {} /\ df_trans = <<>> /\ prices_dict = EmptyMap
    /\ now = 1 /\ call = NoCall /\ built = <<>> /\ cashflows = <<>>
    /\ xcf = <<>> /\ seed_idx = 0
    /\ tried = <<>> /\ xirr_result = None /\ ret = NoRet /\ memo = {}
    /\ prev = NoPrev /\ sym_i = 0 /\ base_tickers = {} /\ resolved = <<>>

\* a call of is_option_symbol
Classify ==
    /\ pc = "classify"
    /\ verdict' = {is_option_symbol(symbol)}
    /\ pc' = "classified"
    /\ UNCHANGED <<symbol, df_trans, prices_dict, now, call, built, cashflows,
                   xcf, seed_idx, tried, xirr_result, ret, memo, prev, sym_i,
                   base_tickers, resolved>>

NextClassifier == Classify

SpecClassifier == InitClassifier /\ [][NextClassifier]_vars

HasCP(s) == \E i \in 1..Len(s) : s[i] = "C" \/ s[i] = "P"

HasDigit(s) == \E i \in 1..Len(s) : IsDigit(s[i])

\* the length from the first to the last character that is not whitespace
CoreLen(s) ==
    LET ink == {i \in 1..Len(s) : s[i] # " " /\ s[i] # "\t"}
    IN IF ink = {} THEN 0 ELSE MaxOf(ink) - MinOf(ink) + 1

\* C7 as claimed: is_option is true exactly of the symbols of more than 10
\* characters, whitespace at either end counted, that contain a C or a P
\* and a digit.
C7_LengthAsGiven ==
    verdict # {} =>
        verdict = {Len(symbol) > 10 /\ HasCP(symbol) /\ HasDigit(symbol)}

\* C7 as amended: is_option is true exactly of the symbols that, without
\* the whitespace at either end, have more than 10 characters, and that
\* contain a C or a P and a digit.
C7_LengthWithoutPadding ==
    verdict # {} =>
        verdict = {CoreLen(symbol) > 10 /\ HasCP(symbol) /\ HasDigit(symbol)}

\* a padded symbol of more than 10 characters with a C and a digit that is
\* not an option, because 10 are left without the padding
C7_Witness ==
    /\ verdict = {FALSE}
    /\ Len(symbol) > 10
    /\ CoreLen(symbol) = 10
    /\ HasCP(symbol)
    /\ HasDigit(symbol)

----------------------------------------------------------------------------
(* The detection of the base tickers, lines 295-334                        *)

\* df_trans['Symbol'].unique(): the symbols in order of first appearance
RECURSIVE UniqueSymbols(_)
UniqueSymbols(rows) ==
    IF rows = <<>> THEN <<>>
    ELSE LET before == UniqueSymbols(SubSeq(rows, 1, Len(rows) - 1))
             s == rows[Len(rows)].Symbol
         IN IF \E i \in 1..Len(before) : before[i] = s
            THEN before ELSE Append(before, s)

\* lines 304-317: the symbol up to its first digit, the symbol if it has none
PotentialBase(s) ==
    LET digits == {i \in 1..Len(s) : IsDigit(s[i])}
    IN IF digits = {} THEN s ELSE SubSeq(s, 1, MinOf(digits) - 1)

\* the mutant of CandidateAccepted: the empty candidate is accepted as well
CandidateNotOption(c) == ~is_option_symbol(c)

\* line 320: `if potential_base and not is_option_symbol(potential_base)`
CandidateAccepted(c) == c # <<>> /\ ~is_option_symbol(c)

\* lines 325-328: the longest key that is a prefix of the symbol and is not
\* an option, "" when there is none
LongestPrefixMatch(s, prices) ==
    LET fits == {k \in DOMAIN prices :
                    StartsWith(s, k) /\ ~is_option_symbol(k) /\ Len(k) > 0}
    IN IF fits = {} THEN <<>>
       ELSE CHOOSE k \in fits : \A j \in fits : Len(j) <= Len(k)

\* lines 297-334, one pass of the loop: what is added to base_tickers
AddedFor(s, prices) ==
    IF ~is_option_symbol(s) THEN {s}
    ELSE IF CandidateAccepted(PotentialBase(s)) THEN {PotentialBase(s)}
    ELSE IF LongestPrefixMatch(s, prices) # <<>>
         THEN {LongestPrefixMatch(s, prices)}
    ELSE IF ~is_option_symbol(s) THEN {s}
    ELSE {}

DetectStep ==
    /\ pc = "detect"
    /\ sym_i < Len(UniqueSymbols(df_trans))
    /\ LET s == UniqueSymbols(df_trans)[sym_i + 1]
       IN /\ base_tickers' = base_tickers \cup AddedFor(s, prices_dict)
          /\ resolved' = Append(resolved,
                                [symbol |-> s, added |-> AddedFor(s, prices_dict)])
    /\ sym_i' = sym_i + 1
    /\ pc' = IF sym_i + 1 = Len(UniqueSymbols(df_trans)) THEN "detected" ELSE "detect"
    /\ UNCHANGED <<symbol, verdict, df_trans, prices_dict, now, call, built,
                   cashflows, xcf, seed_idx, tried, xirr_result, ret, memo, prev>>

\* 251219C00040000, an option symbol that starts with a digit
DIG == <<"2", "5", "1", "2", "1", "9", "C", "0", "0", "0", "4", "0", "0", "0", "0">>

DetectSymbols == {BKE, OPT1, DIG}

DetectKeys == {BKE, <<"2">>, <<"2", "5">>, DIG}

MaxDetectRows == 2

InitDetect ==
    /\ pc = "detect"
    /\ df_trans \in SeqsUpTo({Row(s, 0, 1, -100) : s \in DetectSymbols}, MaxDetectRows)
    /\ df_trans # <<>>
    /\ prices_dict \in {[k \in K |-> 1] : K \in SUBSET DetectKeys}
    /\ symbol = <<>> /\ verdict = {}
    /\ now = 1 /\ call = NoCall /\ built = <<>> /\ cashflows = <<>>
    /\ xcf = <<>> /\ seed_idx = 0
    /\ tried = <<>> /\ xirr_result = None /\ ret = NoRet /\ memo = {}
    /\ prev = NoPrev /\ sym_i = 0 /\ base_tickers = {} /\ resolved = <<>>

NextDetect == DetectStep

SpecDetect == InitDetect /\ [][NextDetect]_vars

\* the characters of s before its first digit, written out
LeadingNonDigits(s) ==
    CHOOSE p \in {SubSeq(s, 1, n) : n \in 0..Len(s)} :
        /\ \A i \in 1..Len(p) : ~IsDigit(p[i])
        /\ Len(p) = Len(s) \/ IsDigit(s[Len(p) + 1])

\* the non-option keys of the mapping that are prefixes of s
PrefixKeys(s) ==
    {k \in DOMAIN prices_dict : StartsWith(s, k) /\ ~is_option_symbol(k)}

\* C8 as claimed: a symbol that is not an option resolves to itself; an
\* option symbol resolves to its leading non-digit characters whenever
\* these are not an option, the empty string included; otherwise to the
\* longest non-option key that is a prefix of it; otherwise to nothing.
C8_CandidateAlwaysAccepted ==
    \A i \in 1..Len(resolved) :
        LET s == resolved[i].symbol
            c == LeadingNonDigits(s)
        IN IF ~is_option_symbol(s) THEN resolved[i].added = {s}
           ELSE IF ~is_option_symbol(c) THEN resolved[i].added = {c}
           ELSE IF PrefixKeys(s) # {}
           THEN \E k \in PrefixKeys(s) :
                   /\ \A j \in PrefixKeys(s) : Len(j) <= Len(k)
                   /\ resolved[i].added = {k}
           ELSE resolved[i].added = {}

\* C8 as amended: a symbol that is not an option resolves to itself; an
\* option symbol resolves to its leading non-digit characters when these
\* are not empty and not an option, whether or not the mapping has them;
\* otherwise (the symbol starts with a digit) to the longest non-empty
\* non-option key that is a prefix of it; otherwise to nothing.
C8_NonEmptyCandidateAccepted ==
    \A i \in 1..Len(resolved) :
        LET s == resolved[i].symbol
            c == LeadingNonDigits(s)
            keys == {k \in PrefixKeys(s) : k # <<>>}
        IN IF ~is_option_symbol(s) THEN resolved[i].added = {s}
           ELSE IF c # <<>> /\ ~is_option_symbol(c) THEN resolved[i].added = {c}
           ELSE IF keys # {}
           THEN \E k \in keys :
                   /\ \A j \in keys : Len(j) <= Len(k)
                   /\ resolved[i].added = {k}
           ELSE resolved[i].added = {}

\* an option symbol resolved to leading characters the mapping does not
\* have, and one that starts with a digit resolved to the longer of two keys
C8_Witness ==
    /\ pc = "detected"
    /\ \E i \in 1..Len(resolved) :
          /\ resolved[i].symbol = OPT1
          /\ resolved[i].added = {BKE}
          /\ BKE \notin DOMAIN prices_dict
    /\ \E i \in 1..Len(resolved) :
          /\ resolved[i].symbol = DIG
          /\ resolved[i].added = {<<"2", "5">>}
          /\ <<"2">> \in DOMAIN prices_dict

----------------------------------------------------------------------------
(* The two builders called on the same arguments                           *)

\* the caller keeps the first result and calls the other builder with what
\* it passed to the first
InvokeOther ==
    /\ pc = "done"
    /\ ~prev.set
    /\ prev' = [set |-> TRUE, call |-> call, ret |-> ret]
    /\ IF call.fn = "stock"
       THEN StartCombined(call.ticker, call.calculation_date)
       ELSE StartStockOnly(call.ticker, call.calculation_date)
    /\ UNCHANGED <<symbol, verdict, prices_dict, now, memo, sym_i,
                   base_tickers, resolved>>

MaxRowsBoth == 2

\* a stock ticker and a ticker that is itself an option symbol
TickersBoth == {BKE, OPT1}

\* the rows of the stock and of the option rooted at it
RowPoolBoth == {r \in RowPool : r.Symbol \in {BKE, OPT1}}

InitBoth ==
    /\ pc = "idle"
    /\ df_trans \in SeqsUpTo(RowPoolBoth, MaxRowsBoth)
    /\ prices_dict \in PriceMaps
    /\ symbol = <<>> /\ verdict = {}
    /\ now = 1 /\ call = NoCall /\ built = <<>> /\ cashflows = <<>>
    /\ xcf = <<>> /\ seed_idx = 0
    /\ tried = <<>> /\ xirr_result = None /\ ret = NoRet /\ memo = {}
    /\ prev = NoPrev /\ sym_i = 0 /\ base_tickers = {} /\ resolved = <<>>

NextBoth ==
    \/ \E t \in TickersBoth, d \in CalcDates : InvokeStockOnly(t, d)
    \/ \E t \in TickersBoth, d \in CalcDates : InvokeCombined(t, d)
    \/ XirrPrecheck
    \/ TrySeed
    \/ BuilderReturn
    \/ TimePasses
    \/ InvokeOther

SpecBoth == InitBoth /\ [][NextBoth]_vars

\* the ticker is not classified as an option and every symbol of the table
\* that starts with it is equal to it
PlainTicker(ticker, df) ==
    /\ ~is_option_symbol(ticker)
    /\ \A i \in 1..Len(df) :
          StartsWith(df[i].Symbol, ticker) => df[i].Symbol = ticker

\* the second call is of the other builder, with the ticker, table, price
\* mapping and valuation date of the first
OtherBuilderSameArguments ==
    /\ prev.set
    /\ ret.set
    /\ call.fn # prev.call.fn
    /\ call.ticker = prev.call.ticker
    /\ call.calculation_date = prev.call.calculation_date
    /\ call.df = prev.call.df
    /\ call.prices = prev.call.prices

\* C11: for a ticker that is not classified as an option and a table in
\* which every symbol that starts with the ticker is equal to it, the
\* combined builder and the stock-only builder return the same rate and the
\* same series for the same price mapping and valuation date.
C11_BuildersAgree ==
    (OtherBuilderSameArguments /\ PlainTicker(call.ticker, call.df)) =>
        /\ ret.rate = prev.ret.rate
        /\ ret.series = prev.ret.series

\* both builders called, the clock having moved in between, on two rows of
\* the ticker and nothing else rooted at it, each returning a rate and the
\* two rows followed by the terminal entry of the holding
C11_Witness ==
    /\ OtherBuilderSameArguments
    /\ PlainTicker(call.ticker, call.df)
    /\ call.today > prev.call.today
    /\ Len(call.df) = 2
    /\ \A i \in 1..Len(call.df) : call.df[i].Symbol = call.ticker
    /\ ret.rate.ok
    /\ prev.ret.rate.ok
    /\ Len(ret.series) = 3

====
